---- MODULE Spec2Model ----
(***************************************************************************)
(* fetch_jobs.py: one run of main().  Text is a sequence of one-character  *)
(* strings; an optional number is <<>> (None) or <<n>>.  A normalized      *)
(* listing keeps the fields the properties below read (id, date_posted,    *)
(* salary).                                                                *)
(***************************************************************************)
EXTENDS Integers, Sequences, FiniteSets, TLC

VARIABLES
    API_KEY,      \* module-level API_KEY, read from the environment
    pc,           \* position of main()
    exit_status,  \* -1 while running, 0 normal end, 1 sys.exit(1) or traceback
    error,        \* name of the exception that ended the run, "" if none
    cutoff,       \* <<>> before line 64, <<hours>> after
    idx,          \* index in SEARCHES of the current search (0 before the loop)
    outcome,      \* how the last urlopen/read/json.loads ended ("none" before any)
    pending,      \* number of listings of `results` the for loop has not visited
    all_jobs,     \* list of normalized listings
    seen_ids,     \* set of accepted ids
    jobs_json,    \* content of jobs.json
    paused,       \* history: time.sleep(2) completed since the last request
    writes,       \* history: number of times jobs.json was written
    accepted,     \* history: all_jobs as it was before the sort
    ret_prev,     \* history: ids returned by an earlier search
    ret_cur,      \* history: ids returned so far by the current search
    dup,          \* history: ids returned by at least two searches
    passing,      \* history: ids returned by a listing whose timestamp is absent,
                  \*          unparseable or not older than the cutoff
    salary_args,  \* history: (min, max, period) of the last accepted listing
    stale_rej,    \* history: ids of listings discarded by the recency check
    requested     \* history: the searches requested so far, in order

vars == <<API_KEY, pc, exit_status, error, cutoff, idx, outcome, pending,
          all_jobs, seen_ids, jobs_json, paused, writes, accepted,
          ret_prev, ret_cur, dup, passing, salary_args, stale_rej, requested>>

----------------------------------------------------------------------------
(* Bounds and program constants *)

MaxResults == 2

NumSearches == 8

CUTOFF_HOURS == 48

\* run start times (hours since day 0, hour 0)
RunStarts == {84, 86}

----------------------------------------------------------------------------
(* Text helpers *)

Chars == <<"+", ",", "-", "0", "1", "2", "3", "4", "5", "6", "7", "8", "9",
           ":", "J", "T", "Z", "x">>

\* code point order of the characters used
Ord(c) == CHOOSE i \in 1..Len(Chars) : Chars[i] = c

Digits == <<"0", "1", "2", "3", "4", "5", "6", "7", "8", "9">>

IsDigit(c) == \E i \in 1..10 : Digits[i] = c

DigitVal(c) == (CHOOSE i \in 1..10 : Digits[i] = c) - 1

\* str < str
RECURSIVE LexLess(_, _)
LexLess(a, b) ==
    IF b = <<>> THEN FALSE
    ELSE IF a = <<>> THEN TRUE
    ELSE IF Head(a) = Head(b) THEN LexLess(Tail(a), Tail(b))
    ELSE Ord(Head(a)) < Ord(Head(b))

\* posted.replace("Z", "+00:00")
RECURSIVE ReplaceZ(_)
ReplaceZ(s) ==
    IF s = <<>> THEN <<>>
    ELSE (IF Head(s) = "Z" THEN <<"+", "0", "0", ":", "0", "0">> ELSE <<Head(s)>>)
         \o ReplaceZ(Tail(s))

\* datetime.fromisoformat on the reduced format dThh[+00:00]:
\* ok = FALSE is ValueError; aware = FALSE is a datetime without tzinfo
FromIsoFormat(s) ==
    LET wellFormed == /\ Len(s) \in {4, 10}
                      /\ IsDigit(s[1]) /\ s[2] = "T" /\ IsDigit(s[3]) /\ IsDigit(s[4])
                      /\ DigitVal(s[3]) * 10 + DigitVal(s[4]) < 24
                      /\ Len(s) = 10 => SubSeq(s, 5, 10) = <<"+", "0", "0", ":", "0", "0">>
    IN IF wellFormed
       THEN [ok |-> TRUE, aware |-> Len(s) = 10,
             hours |-> DigitVal(s[1]) * 24 + DigitVal(s[3]) * 10 + DigitVal(s[4])]
       ELSE [ok |-> FALSE, aware |-> FALSE, hours |-> 0]

----------------------------------------------------------------------------
(* Salary text *)

None == <<>>

\* Python truth value of an optional number
Truthy(v) == v # None /\ v[1] # 0

\* Python truth value of a str
TruthyText(s) == s # <<>>

RECURSIVE DigitsOf(_)
DigitsOf(n) == IF n < 10 THEN <<Digits[n + 1]>>
               ELSE DigitsOf(n \div 10) \o <<Digits[(n % 10) + 1]>>

Pad3(n) == <<Digits[(n \div 100) + 1], Digits[((n \div 10) % 10) + 1], Digits[(n % 10) + 1]>>

\* f"{n:,.0f}" for a whole number n >= 0
RECURSIVE FormatThousands(_)
FormatThousands(n) == IF n < 1000 THEN DigitsOf(n)
                      ELSE FormatThousands(n \div 1000) \o <<",">> \o Pad3(n % 1000)

Dollar(v) == <<"$">> \o FormatThousands(v[1])

SalaryText(salary_min, salary_max, salary_period) ==
    IF Truthy(salary_min) /\ Truthy(salary_max)
    THEN Dollar(salary_min) \o <<" ", "-", " ">> \o Dollar(salary_max)
         \o (IF TruthyText(salary_period) THEN <<" ", "(">> \o salary_period \o <<")">> ELSE <<>>)
    ELSE IF Truthy(salary_min) THEN <<"F", "r", "o", "m", " ">> \o Dollar(salary_min)
    ELSE IF Truthy(salary_max) THEN <<"U", "p", " ", "t", "o", " ">> \o Dollar(salary_max)
    ELSE <<>>

----------------------------------------------------------------------------
(* Inputs *)

J1 == <<"J", "1">>
J2 == <<"J", "2">>

\* job.get("job_id", "") of a raw listing: "" when the key is missing
JobIds == {<<>>, J1, J2}

RealIds == JobIds \ {<<>>}

\* job.get("job_posted_at_datetime_utc", ""): absent, not ISO-8601, hour 34, hour 36,
\* hour 74, and hour 74 written without a UTC offset
PostedTexts == { <<>>,
                 <<"x", "x">>,
                 <<"1", "T", "1", "0", "Z">>,
                 <<"1", "T", "1", "2", "Z">>,
                 <<"3", "T", "0", "2", "Z">>,
                 <<"3", "T", "0", "2">> }

Year == <<"y", "e", "a", "r">>

Salaries == { [min |-> None, max |-> None, period |-> <<>>],
              [min |-> <<80000>>, max |-> <<120000>>, period |-> Year] }

RawListings == { [job_id |-> i, posted |-> p, salary_min |-> s.min,
                  salary_max |-> s.max, salary_period |-> s.period] :
                 i \in JobIds, p \in PostedTexts, s \in Salaries }

\* what one request can end in: a parsed body with n listings, or an exception
Responses == { [kind |-> "ok", n |-> n] : n \in 0..MaxResults }
             \cup { [kind |-> k, n |-> 0] :
                    k \in {"HTTPError", "URLError", "TimeoutError", "OSError",
                           "IncompleteRead", "JSONDecodeError"} }
\* IncompleteRead: the connection was closed before the body was complete
\* (http.client.HTTPException); JSONDecodeError: the body is not JSON (ValueError)

\* jobs.json left by an earlier run
PreviousFile == [run |-> "previous", job_count |-> 1,
                 jobs |-> << [id |-> J1, date_posted |-> <<"0", "T", "0", "0", "Z">>,
                              salary |-> <<>>] >>]

----------------------------------------------------------------------------
(* Pieces of main() and fetch_jobs_for_query() *)

KeyMissing_Never(key) == FALSE

\* if not API_KEY
KeyMissing(key) == key = <<>>

\* the except clauses of fetch_jobs_for_query
Caught(kind) == kind \in {"HTTPError", "URLError", "TimeoutError", "OSError"}

SleepsAfter_OnlyOnSuccess(kind) == kind = "ok"

\* time.sleep(2) follows the fetch unconditionally
SleepsAfter(kind) == TRUE

IdRejected_NoDedup(job_id, seen) == job_id = <<>>

\* if not job_id or job_id in seen_ids: continue
IdRejected(job_id, seen) == job_id = <<>> \/ job_id \in seen

IsStale_Inclusive(posted_hours, cutoff_hours) == posted_hours <= cutoff_hours

\* if posted_dt < cutoff: continue
IsStale(posted_hours, cutoff_hours) == posted_hours < cutoff_hours

SeenAfterStale_Marked(seen, job_id) == seen \cup {job_id}

\* the dedup set after a listing is discarded by the recency check
SeenAfterStale(seen, job_id) == seen

\* a timestamp the recency rule lets through: absent, not ISO-8601, or an instant at or
\* after the cutoff
NotOlderThanCutoff(posted, cutoff_hours) ==
    LET dt == FromIsoFormat(ReplaceZ(posted))
    IN posted = <<>> \/ ~dt.ok \/ (dt.aware /\ dt.hours >= cutoff_hours)

\* the dict appended to all_jobs
Normalize(j) == [id |-> j.job_id, date_posted |-> j.posted,
                 salary |-> SalaryText(j.salary_min, j.salary_max, j.salary_period)]

ComesBefore_Ties(x, y) == ~LexLess(x.date_posted, y.date_posted)

\* sort(key=date_posted, reverse=True): x moves ahead of an earlier y only when its
\* key is strictly greater
ComesBefore(x, y) == LexLess(y.date_posted, x.date_posted)

RECURSIVE InsertDesc(_, _)
InsertDesc(sorted, x) ==
    IF sorted = <<>> THEN <<x>>
    ELSE IF ComesBefore(x, Head(sorted)) THEN <<x>> \o sorted
    ELSE <<Head(sorted)>> \o InsertDesc(Tail(sorted), x)

RECURSIVE SortDesc(_)
SortDesc(s) == IF s = <<>> THEN <<>>
               ELSE InsertDesc(SortDesc(SubSeq(s, 1, Len(s) - 1)), s[Len(s)])

----------------------------------------------------------------------------
(* The run *)

Init ==
    /\ API_KEY \in {<<>>, <<"k">>}
    /\ pc = "start"
    /\ exit_status = -1
    /\ error = ""
    /\ cutoff = <<>>
    /\ idx = 0
    /\ outcome = "none"
    /\ pending = 0
    /\ all_jobs = <<>>
    /\ seen_ids = {}
    /\ jobs_json = PreviousFile
    /\ paused = FALSE
    /\ writes = 0
    /\ accepted = <<>>
    /\ ret_prev = {}
    /\ ret_cur = {}
    /\ dup = {}
    /\ passing = {}
    /\ salary_args = <<>>
    /\ stale_rej = {}
    /\ requested = <<>>

history == <<paused, writes, accepted, ret_prev, ret_cur, dup, passing, salary_args,
            stale_rej, requested>>

\* lines 60-66: the credential check, then cutoff and the empty accumulators
Start ==
    /\ pc = "start"
    /\ IF KeyMissing(API_KEY)
       THEN /\ pc' = "exited"
            /\ exit_status' = 1
            /\ error' = "SystemExit"
            /\ UNCHANGED <<cutoff, idx>>
       ELSE /\ \E now \in RunStarts : cutoff' = <<now - CUTOFF_HOURS>>
            /\ idx' = 1
            /\ pc' = "fetch"
            /\ UNCHANGED <<exit_status, error>>
    /\ UNCHANGED <<API_KEY, outcome, pending, all_jobs, seen_ids, jobs_json, history>>

\* lines 69-72 and fetch_jobs_for_query: one request for SEARCHES[idx]; an exception the
\* except clauses do not name leaves main() with a traceback
Fetch ==
    /\ pc = "fetch"
    /\ \E resp \in Responses :
         /\ outcome' = resp.kind
         /\ IF resp.kind = "ok" \/ Caught(resp.kind)
            THEN /\ pending' = resp.n
                 /\ pc' = "sleep"
                 /\ UNCHANGED <<exit_status, error>>
            ELSE /\ pc' = "crashed"
                 /\ exit_status' = 1
                 /\ error' = resp.kind
                 /\ UNCHANGED pending
    /\ requested' = Append(requested, idx)
    /\ paused' = FALSE
    /\ ret_prev' = ret_prev \cup ret_cur
    /\ ret_cur' = {}
    /\ UNCHANGED <<API_KEY, cutoff, idx, all_jobs, seen_ids, jobs_json,
                   writes, accepted, dup, passing, salary_args, stale_rej>>

\* line 73
Sleep ==
    /\ pc = "sleep"
    /\ pc' = "loop"
    /\ paused' = SleepsAfter(outcome)
    /\ UNCHANGED <<API_KEY, exit_status, error, cutoff, idx, outcome, pending,
                   all_jobs, seen_ids, jobs_json, writes, accepted, ret_prev, ret_cur,
                   dup, passing, salary_args, stale_rej, requested>>

\* lines 76-120: the loop body for listing j
Visit(j) ==
    LET dt == FromIsoFormat(ReplaceZ(j.posted))
    IN /\ ret_cur' = ret_cur \cup ({j.job_id} \ {<<>>})
       /\ dup' = dup \cup ({j.job_id} \cap ret_prev)
       /\ passing' = IF j.job_id # <<>> /\ NotOlderThanCutoff(j.posted, cutoff[1])
                     THEN passing \cup {j.job_id} ELSE passing
       /\ IF IdRejected(j.job_id, seen_ids)
          THEN /\ pc' = "loop"
               /\ UNCHANGED <<exit_status, error, all_jobs, seen_ids, stale_rej,
                              salary_args>>
          ELSE IF j.posted # <<>> /\ dt.ok /\ ~dt.aware
          THEN \* posted_dt < cutoff raises TypeError: naive against aware
               /\ pc' = "crashed"
               /\ exit_status' = 1
               /\ error' = "TypeError"
               /\ UNCHANGED <<all_jobs, seen_ids, stale_rej, salary_args>>
          ELSE IF j.posted # <<>> /\ dt.ok /\ IsStale(dt.hours, cutoff[1])
          THEN /\ pc' = "loop"
               /\ seen_ids' = SeenAfterStale(seen_ids, j.job_id)
               /\ stale_rej' = stale_rej \cup {j.job_id}
               /\ UNCHANGED <<exit_status, error, all_jobs, salary_args>>
          ELSE /\ pc' = "loop"
               /\ seen_ids' = seen_ids \cup {j.job_id}
               /\ all_jobs' = Append(all_jobs, Normalize(j))
               /\ salary_args' = <<j.salary_min, j.salary_max, j.salary_period>>
               /\ UNCHANGED <<exit_status, error, stale_rej>>

\* line 75: the for loop visits the next listing of results
Iterate ==
    /\ pc = "loop"
    /\ pending > 0
    /\ pending' = pending - 1
    /\ \E j \in RawListings : Visit(j)
    /\ UNCHANGED <<API_KEY, cutoff, idx, outcome, jobs_json, paused,
                   writes, accepted, ret_prev, requested>>

\* line 68: results is exhausted and another search definition is left
NextSearch ==
    /\ pc = "loop"
    /\ pending = 0
    /\ idx < NumSearches
    /\ idx' = idx + 1
    /\ pc' = "fetch"
    /\ UNCHANGED <<API_KEY, exit_status, error, cutoff, outcome, pending, all_jobs,
                   seen_ids, jobs_json, history>>

\* lines 122-133: sort, wrap, overwrite jobs.json
Write ==
    /\ pc = "loop"
    /\ pending = 0
    /\ idx = NumSearches
    /\ all_jobs' = SortDesc(all_jobs)
    /\ accepted' = all_jobs
    /\ jobs_json' = [run |-> "this", job_count |-> Len(all_jobs),
                     jobs |-> SortDesc(all_jobs)]
    /\ writes' = writes + 1
    /\ pc' = "done"
    /\ exit_status' = 0
    /\ UNCHANGED <<API_KEY, error, cutoff, idx, outcome, pending, seen_ids, paused,
                   ret_prev, ret_cur, dup, passing, salary_args, stale_rej, requested>>

Next == Start \/ Fetch \/ Sleep \/ Iterate \/ NextSearch \/ Write

Spec == Init /\ [][Next]_vars

----------------------------------------------------------------------------
(* The salary text over a wider range of salary fields: the first listing   *)
(* of the first search is visited                                           *)

SalaryValues == {None, <<0>>, <<1>>, <<999>>, <<80000>>, <<1234567>>}

SalaryListings == { [job_id |-> J1, posted |-> <<>>, salary_min |-> lo,
                     salary_max |-> hi, salary_period |-> p] :
                    lo \in SalaryValues, hi \in SalaryValues,
                    p \in {<<>>, Year, <<"h", "o", "u", "r">>} }

SalaryInit ==
    /\ API_KEY = <<"k">>
    /\ pc = "loop"
    /\ exit_status = -1
    /\ error = ""
    /\ cutoff = <<84 - CUTOFF_HOURS>>
    /\ idx = 1
    /\ outcome = "ok"
    /\ pending = 1
    /\ all_jobs = <<>>
    /\ seen_ids = {}
    /\ jobs_json = PreviousFile
    /\ paused = TRUE
    /\ writes = 0
    /\ accepted = <<>>
    /\ ret_prev = {}
    /\ ret_cur = {}
    /\ dup = {}
    /\ passing = {}
    /\ salary_args = <<>>
    /\ stale_rej = {}
    /\ requested = <<1>>

IterateSalaried ==
    /\ pc = "loop"
    /\ pending > 0
    /\ pending' = pending - 1
    /\ \E j \in SalaryListings : Visit(j)
    /\ UNCHANGED <<API_KEY, cutoff, idx, outcome, jobs_json, paused,
                   writes, accepted, ret_prev, requested>>

SalarySpec == SalaryInit /\ [][IterateSalaried]_vars

----------------------------------------------------------------------------
(* The sort over longer lists: the last search is exhausted                 *)

MaxSortLen == 3

SortIds == { <<"J", Digits[i + 1]>> : i \in 1..MaxSortLen }

SortEntries == { [id |-> i, date_posted |-> d, salary |-> <<>>] :
                 i \in SortIds,
                 d \in { <<>>, <<"x", "x">>, <<"1", "T", "1", "2", "Z">>,
                         <<"3", "T", "0", "2", "Z">> } }

SortInputs == UNION { { q \in [1..n -> SortEntries] :
                          \A a, b \in 1..n : a # b => q[a].id # q[b].id } :
                      n \in 0..MaxSortLen }

SortInit ==
    /\ API_KEY = <<"k">>
    /\ pc = "loop"
    /\ exit_status = -1
    /\ error = ""
    /\ cutoff = <<84 - CUTOFF_HOURS>>
    /\ idx = NumSearches
    /\ outcome = "ok"
    /\ pending = 0
    /\ all_jobs \in SortInputs
    /\ seen_ids = { all_jobs[i].id : i \in 1..Len(all_jobs) }
    /\ jobs_json = PreviousFile
    /\ paused = TRUE
    /\ writes = 0
    /\ accepted = <<>>
    /\ ret_prev = {}
    /\ ret_cur = seen_ids
    /\ dup = {}
    /\ passing = seen_ids
    /\ salary_args = IF all_jobs = <<>> THEN <<>> ELSE <<None, None, <<>> >>
    /\ stale_rej = {}
    /\ requested = [i \in 1..NumSearches |-> i]

SortSpec == SortInit /\ [][Write]_vars

----------------------------------------------------------------------------
(* Properties *)

Ids(q) == { q[i].id : i \in 1..Len(q) }

Count(id, q) == Cardinality({ i \in 1..Len(q) : q[i].id = id })

DistinctIds(q) == \A a, b \in 1..Len(q) : a # b => q[a].id # q[b].id

Pos(q, id) == CHOOSE i \in 1..Len(q) : q[i].id = id

Written == pc = "done" /\ jobs_json.run = "this"

\* an entry whose date_posted parses to an instant is not older than the cutoff
RecentEnough(q) ==
    \A i \in 1..Len(q) :
        LET dt == FromIsoFormat(ReplaceZ(q[i].date_posted))
        IN (dt.ok /\ dt.aware) => dt.hours >= cutoff[1]

\* C1: no two entries of all_jobs share an id at any point of the loop, and the ids of the
\* written jobs list are pairwise distinct, whatever the searches return.
C1_UniqueIds ==
    /\ DistinctIds(all_jobs)
    /\ Written => DistinctIds(jobs_json.jobs)

\* an id came back from two searches, and the file holds two listings
C1_Witness == Written /\ dup # {} /\ Len(jobs_json.jobs) >= 2

\* C2: every listing kept (and written) whose date_posted is a parseable timestamp is not
\* earlier than run start minus 48 hours, and an id returned with a timestamp the recency
\* rule lets through is in the written list.
C2_RecentOnly ==
    /\ RecentEnough(all_jobs)
    /\ pc # "done" => passing \subseteq Ids(all_jobs)
    /\ Written => /\ RecentEnough(jobs_json.jobs)
                  /\ passing \subseteq Ids(jobs_json.jobs)

\* a stale listing was discarded and a listing posted exactly at the cutoff was written
C2_Witness ==
    /\ Written
    /\ stale_rej # {}
    /\ \E i \in 1..Len(jobs_json.jobs) :
         LET dt == FromIsoFormat(ReplaceZ(jobs_json.jobs[i].date_posted))
         IN dt.ok /\ dt.aware /\ dt.hours = cutoff[1]

\* the failures the dispatcher is said to absorb
RequestFailures == {"HTTPError", "URLError", "TimeoutError", "OSError", "IncompleteRead"}

\* C3: with the credential set, a failed search request (HTTP status, timeout, DNS or
\* connection failure) counts as zero results and never ends the run.
C3_RequestFailureIsZeroResults ==
    (API_KEY # <<>> /\ outcome \in RequestFailures) => (pc # "crashed" /\ pending = 0)

\* C4: without a credential the run ends with a non-zero status, no request is issued and
\* jobs.json is neither created nor overwritten.
C4_NoKeyNoActivity ==
    API_KEY = <<>> =>
        /\ pc \in {"start", "exited"}
        /\ pc = "exited" => exit_status = 1
        /\ requested = <<>>
        /\ writes = 0
        /\ jobs_json = PreviousFile

C4_Witness == API_KEY = <<>> /\ pc = "exited" /\ exit_status = 1

\* C5: the written list is in non-increasing text order of date_posted, holds exactly the
\* accepted listings, and listings with equal date_posted keep their acceptance order.
C5_SortedStable ==
    Written =>
        LET out == jobs_json.jobs
        IN /\ Len(out) = Len(accepted)
           /\ \A i \in 1..Len(out) : \E k \in 1..Len(accepted) : accepted[k] = out[i]
           /\ \A a, b \in 1..Len(out) :
                a < b => /\ ~LexLess(out[a].date_posted, out[b].date_posted)
                         /\ out[a].date_posted = out[b].date_posted
                              => Pos(accepted, out[a].id) < Pos(accepted, out[b].id)

\* three listings, two of them with the same date_posted, one with none, and the sort
\* moved something
C5_Witness ==
    /\ Written
    /\ Len(jobs_json.jobs) >= 3
    /\ jobs_json.jobs # accepted
    /\ \E a, b \in 1..Len(accepted) :
         a # b /\ accepted[a].date_posted = accepted[b].date_posted
    /\ \E a \in 1..Len(accepted) : accepted[a].date_posted = <<>>

\* C6 as stated: an id returned by two searches is exactly once in the written list.
C6_ExactlyOne ==
    Written => \A id \in dup : Count(id, jobs_json.jobs) = 1

\* C6 as amended: an id returned by two searches is at most once in all_jobs and in the
\* written list: exactly once when some returned copy has a timestamp the recency rule
\* lets through, and not at all otherwise.
C6_OnceIfRecent ==
    \A id \in dup :
        /\ Count(id, all_jobs) = (IF id \in passing THEN 1 ELSE 0)
        /\ Written => Count(id, jobs_json.jobs) = (IF id \in passing THEN 1 ELSE 0)

\* one id came back twice and was written once, another came back twice only stale
C6_Witness ==
    /\ Written
    /\ dup \cap passing # {}
    /\ dup \ passing # {}

\* C7: a listing's timestamp never ends the run.
C7_TimestampNeverAborts == ~(pc = "crashed" /\ error = "TypeError")

SalaryText_Presence(salary_min, salary_max, salary_period) ==
    IF salary_min # None /\ salary_max # None
    THEN Dollar(salary_min) \o <<" ", "-", " ">> \o Dollar(salary_max)
         \o (IF TruthyText(salary_period) THEN <<" ", "(">> \o salary_period \o <<")">> ELSE <<>>)
    ELSE IF salary_min # None THEN <<"F", "r", "o", "m", " ">> \o Dollar(salary_min)
    ELSE IF salary_max # None THEN <<"U", "p", " ", "t", "o", " ">> \o Dollar(salary_max)
    ELSE <<>>

\* C8: the salary text of the listing just accepted follows from which of min and max
\* are present (a present 0 included).
C8_SalaryByPresence ==
    (pc = "loop" /\ all_jobs # <<>>) =>
        all_jobs[Len(all_jobs)].salary
            = SalaryText_Presence(salary_args[1], salary_args[2], salary_args[3])

\* C9: the dedup set holds exactly the ids of the accepted listings, which are exactly
\* the ids returned with a timestamp the recency rule lets through: a discarded listing
\* marks nothing, and a stale copy does not block a later recent one.
C9_SeenOnlyAccepted ==
    /\ seen_ids = Ids(all_jobs)
    /\ seen_ids = passing
    /\ stale_rej \ passing \subseteq RealIds \ seen_ids

\* an id first discarded as stale was accepted later
C9_Witness == \E id \in stale_rej : id \in seen_ids /\ pc = "loop"

\* C10: requests go out in list order, one per search definition, and when a request is
\* about to be issued the pause after the previous one has completed.
C10_PauseBetweenRequests ==
    /\ requested = [i \in 1..Len(requested) |-> i]
    /\ Len(requested) <= NumSearches
    /\ pc = "fetch" => Len(requested) = idx - 1
    /\ (pc = "fetch" /\ requested # <<>>) => paused

\* the previous request failed, the pause is over and the next request is due
C10_Witness ==
    /\ pc = "fetch"
    /\ idx > 1
    /\ outcome \in {"HTTPError", "URLError", "TimeoutError", "OSError"}
    /\ paused

====
